---- MODULE Spec2Model ----
(***************************************************************************)
(* Model of intamyuto/pipeline: a tick stream is read, fanned out to one   *)
(* window aggregator per span, and every aggregator hands its candles to a *)
(* writer.  Time is counted in minutes since midnight of day 0.            *)
(*                                                                         *)
(* Two specifications share the state:                                     *)
(*   Spec         the whole pipeline() of pipeline.go;                     *)
(*   SpecProcess  one process() driven by the harness of TestProcess       *)
(*                (a feeder goroutine and a collecting loop).              *)
(* Unbuffered channels are rendezvous: one action moves sender and         *)
(* receiver together, and a goroutine's pc names the channel operation it  *)
(* is blocked on.                                                          *)
(***************************************************************************)
EXTENDS Integers, Sequences, FiniteSets

VARIABLES
    proc,       \* proc[i]: locals of goroutine process(tasks[i].span, in, out)
    inClosed,   \* inClosed[i]: channel tasks[i].in has been closed
    sent,       \* sent[i]: candles delivered on tasks[i].out, in order
    tested,     \* harness: index of the span process() is run with (0: none)
    fed,        \* harness: lines of tt.in already sent on in
    reader,     \* locals of goroutine read()
    scanned,    \* text records the scanner has returned so far
    writer,     \* writer[i]: locals of goroutine write()
    sink,       \* sink[i]: records written to the output file
    orch,       \* locals of pipeline(): loop counter and returned value
    expired,    \* ctx.Done() is closed (deadline passed)
    codec       \* price codec run on its own: input, text and result

vars == <<proc, inClosed, sent, tested, fed, reader, scanned, writer, sink,
          orch, expired, codec>>

(* ----------------------------- bounds ---------------------------------- *)
MaxLines == 3        \* length of the tick sequence fed to one process()
MaxDay == 1          \* last calendar day a tick may fall on
MaxScan == 3         \* number of records in the pipeline's input file
MaxLoopLog == 11     \* the adjusting loop runs at most 2^MaxLoopLog times
MaxPrice == 299      \* prices 0..MaxPrice are run through the price codec

(* ------------------------- program constants --------------------------- *)
TradesStart == 420
TradesDuration == 1020
DayLen == 1440
Spans == <<5, 30, 240>>
NumTasks == Len(Spans)
Tasks == 1..NumTasks

\* the (ticker, price) pairs ticks are made of
Quotes == {<<"AAPL", 16288>>, <<"AAPL", 16320>>, <<"SBER", 21380>>}

(* ------------------------------ data ----------------------------------- *)
NilLine == [Ticker |-> "<nil>", Timestamp |-> 0, Price |-> 0, Count |-> 0]

EmptyMap == [k \in {} |-> 0]

newCandle(ts, ticker, price) ==
    [Ticker |-> ticker, Start |-> ts, PriceStart |-> price,
     PriceEnd |-> price, PriceMin |-> price, PriceMax |-> price]

MapPut(m, k, v) == [x \in DOMAIN m \cup {k} |-> IF x = k THEN v ELSE m[x]]

MapDel(m, k) == [x \in DOMAIN m \ {k} |-> m[x]]

(* --------------------------- process() --------------------------------- *)
ProcInit ==
    [pc |-> "first", day |-> 0, l |-> 0, r |-> 0, max |-> 0,
     candles |-> EmptyMap, ticks |-> EmptyMap, pending |-> {},
     line |-> NilLine, nrecv |-> 0, got |-> <<>>]

\* line.Timestamp.Date() followed by time.Date(y, m, d, 0, ...)
DayOf(ts) == (ts \div DayLen) * DayLen

\* the interval literal built from the first line
FirstInterval(ts, span) ==
    LET start == DayOf(ts) + TradesStart
    IN [day |-> DayOf(ts), l |-> start, r |-> start + span,
        max |-> start + TradesDuration]

DiscardsNothing(l, ts) == FALSE

\* line.Timestamp.Before(interval.l)
Discards(l, ts) == ts < l

\* line.Timestamp.After(interval.r) || line.Timestamp.Equal(interval.r)
ClosesWindow(r, ts) == ts > r \/ ts = r

\* the condition of the adjusting loop
MustAdvance(r, ts) == ts > r

StepIntervalFromMidnight(iv, span) ==
    IF iv.r = iv.max
    THEN LET day == iv.day + DayLen
             l == day
         IN [day |-> day, l |-> l, r |-> l + span, max |-> l + TradesDuration]
    ELSE LET l == iv.l + span
             r == iv.r + span
         IN [day |-> iv.day, l |-> l,
             r |-> IF r > iv.max THEN iv.max ELSE r, max |-> iv.max]

\* one iteration of the adjusting loop
StepInterval(iv, span) ==
    IF iv.r = iv.max
    THEN LET day == iv.day + DayLen
             l == day + TradesStart
         IN [day |-> day, l |-> l, r |-> l + span, max |-> l + TradesDuration]
    ELSE LET l == iv.l + span
             r == iv.r + span
         IN [day |-> iv.day, l |-> l,
             r |-> IF r > iv.max THEN iv.max ELSE r, max |-> iv.max]

\* the adjusting loop "for line.Timestamp.After(interval.r) { ... }".  The
\* loop is unrolled by halving so that the evaluation stays shallow:
\* Iterate(iv, ts, span, n) runs at most 2^n iterations and stops, like the
\* loop, at the first interval whose right bound is not before ts.
RECURSIVE Iterate(_, _, _, _)
Iterate(iv, ts, span, n) ==
    IF ~MustAdvance(iv.r, ts) THEN iv
    ELSE IF n = 0 THEN StepInterval(iv, span)
    ELSE LET half == Iterate(iv, ts, span, n - 1)
         IN Iterate(half, ts, span, n - 1)

AdjustInterval(iv, ts, span) == Iterate(iv, ts, span, MaxLoopLog)

IntervalOf(p) == [day |-> p.day, l |-> p.l, r |-> p.r, max |-> p.max]

WithInterval(p, iv) ==
    [p EXCEPT !.day = iv.day, !.l = iv.l, !.r = iv.r, !.max = iv.max]

UpdateCandleKeepsEnd(c, price) ==
    [c EXCEPT !.PriceMin = IF price < c.PriceMin THEN price ELSE c.PriceMin,
              !.PriceMax = IF price > c.PriceMax THEN price ELSE c.PriceMax]

UpdateCandleLowUnchecked(c, price) ==
    [c EXCEPT !.PriceMin = price,
              !.PriceMax = IF price > c.PriceMax THEN price ELSE c.PriceMax,
              !.PriceEnd = price]

\* the update of an existing candle
UpdateCandle(c, price) ==
    [c EXCEPT !.PriceMin = IF price < c.PriceMin THEN price ELSE c.PriceMin,
              !.PriceMax = IF price > c.PriceMax THEN price ELSE c.PriceMax,
              !.PriceEnd = price]

\* "aggregate lines by ticker"; ticks records the lines that went into
\* each open candle
Aggregate(p, line) ==
    IF line.Ticker \in DOMAIN p.candles
    THEN [p EXCEPT
            !.candles[line.Ticker] = UpdateCandle(@, line.Price),
            !.ticks[line.Ticker] = Append(@, line)]
    ELSE [p EXCEPT
            !.candles = MapPut(@, line.Ticker,
                               newCandle(p.l, line.Ticker, line.Price)),
            !.ticks = MapPut(@, line.Ticker, <<line>>)]

\* the first receive and the code up to the range loop
OnFirst(p, line, span) ==
    LET q == [p EXCEPT !.line = line, !.nrecv = @ + 1,
                       !.got = Append(@, line)]
    IN IF line = NilLine
       THEN [q EXCEPT !.pc = "panic"]
       ELSE LET w == WithInterval(q, FirstInterval(line.Timestamp, span))
            IN IF ~Discards(w.l, line.Timestamp)
               THEN [w EXCEPT
                       !.pc = "recv",
                       !.candles = MapPut(@, line.Ticker,
                                 newCandle(w.l, line.Ticker, line.Price)),
                       !.ticks = MapPut(@, line.Ticker, <<line>>)]
               ELSE [w EXCEPT !.pc = "recv"]

\* the code after the flush loop: adjust the interval, then aggregate
AfterFlush(p, span) ==
    LET iv == AdjustInterval(IntervalOf(p), p.line.Timestamp, span)
    IN [Aggregate(WithInterval(p, iv), p.line) EXCEPT !.pc = "recv"]

\* one iteration of "for line := range in", up to the next channel operation
OnLine(p, line, span) ==
    LET q == [p EXCEPT !.line = line, !.nrecv = @ + 1,
                       !.got = Append(@, line)]
    IN IF line = NilLine
       THEN [q EXCEPT !.pc = "panic"]
       ELSE IF Discards(q.l, line.Timestamp)
       THEN q
       ELSE IF ClosesWindow(q.r, line.Timestamp)
       THEN IF DOMAIN q.candles # {}
            THEN [q EXCEPT !.pc = "flush", !.pending = DOMAIN q.candles]
            ELSE AfterFlush(q, span)
       ELSE Aggregate(q, line)

\* a line arrives on in
OnReceive(p, line, span) ==
    IF p.pc = "first" THEN OnFirst(p, line, span) ELSE OnLine(p, line, span)

OnClosedSkipsClose(p) ==
    [p EXCEPT !.pc = "final", !.pending = DOMAIN p.candles]

\* in is found closed
OnClosed(p) ==
    IF p.pc = "first" \/ DOMAIN p.candles = {}
    THEN [p EXCEPT !.pc = "done"]
    ELSE [p EXCEPT !.pc = "final", !.pending = DOMAIN p.candles]

OnTakenAdvancesEarly(p, k, span) ==
    IF p.pc = "flush"
    THEN LET q == [p EXCEPT !.candles = MapDel(@, k), !.ticks = MapDel(@, k),
                            !.pending = {}]
         IN AfterFlush(q, span)
    ELSE LET q == [p EXCEPT !.pending = @ \ {k}]
         IN IF q.pending = {} THEN [q EXCEPT !.pc = "done"] ELSE q

\* the receiver of out takes candle k; the map iteration order is free
OnTaken(p, k, span) ==
    IF p.pc = "flush"
    THEN LET q == [p EXCEPT !.candles = MapDel(@, k), !.ticks = MapDel(@, k),
                            !.pending = @ \ {k}]
         IN IF q.pending = {} THEN AfterFlush(q, span) ELSE q
    ELSE LET q == [p EXCEPT !.pending = @ \ {k}]
         IN IF q.pending = {} THEN [q EXCEPT !.pc = "done"] ELSE q

CanReceiveWhileFlushing(p) == p.pc \in {"first", "recv", "flush"}

CanReceive(p) == p.pc \in {"first", "recv"}

CanSend(p) == p.pc \in {"flush", "final"}

EmittedSomeKey(p, k) ==
    LET x == CHOOSE x \in DOMAIN p.candles : TRUE
    IN [c |-> p.candles[x], ticks |-> p.ticks[x]]

\* the candle the range loop sends for key k
Emitted(p, k) == [c |-> p.candles[k], ticks |-> p.ticks[k]]

(* ------------------------ harness of TestProcess ----------------------- *)
\* timestamps of the ticks fed: on day 0 just before the session, at its
\* start, at the right bound of the first window and in the last window; on
\* every later day at midnight (the end of the previous session), just
\* before the session and at its start
TickTimes(span) ==
    {TradesStart - 1, TradesStart, TradesStart + span, DayLen - 1}
    \cup { d * DayLen + m : d \in 1..MaxDay, m \in {0, TradesStart - 1,
                                                    TradesStart} }

LastFed == IF fed = <<>> THEN 0 ELSE fed[Len(fed)].Timestamp

\* in <- line
TestFeed ==
    /\ tested \in Tasks
    /\ ~inClosed[tested]
    /\ Len(fed) < MaxLines
    /\ CanReceive(proc[tested])
    /\ \E q \in Quotes, ts \in TickTimes(Spans[tested]) :
         /\ ts >= LastFed
         /\ LET line == [Ticker |-> q[1], Timestamp |-> ts, Price |-> q[2],
                         Count |-> 0]
            IN /\ fed' = Append(fed, line)
               /\ proc' = [proc EXCEPT
                             ![tested] = OnReceive(@, line, Spans[tested])]
    /\ UNCHANGED codec
    /\ UNCHANGED <<inClosed, sent, tested, reader, scanned, writer, sink,
                   orch, expired>>

\* close(in)
TestClose ==
    /\ tested \in Tasks
    /\ ~inClosed[tested]
    /\ inClosed' = [inClosed EXCEPT ![tested] = TRUE]
    /\ UNCHANGED codec
    /\ UNCHANGED <<proc, sent, tested, fed, reader, scanned, writer, sink,
                   orch, expired>>

\* for candle := range out
TestCollect ==
    /\ tested \in Tasks
    /\ CanSend(proc[tested])
    /\ \E k \in proc[tested].pending :
         /\ sent' = [sent EXCEPT
                       ![tested] = Append(@, Emitted(proc[tested], k))]
         /\ proc' = [proc EXCEPT
                       ![tested] = OnTaken(@, k, Spans[tested])]
    /\ UNCHANGED codec
    /\ UNCHANGED <<inClosed, tested, fed, reader, scanned, writer, sink,
                   orch, expired>>

(* ------------------------- text and prices ---------------------------- *)
\* A text is a sequence of one-character strings.
Digits == {"0", "1", "2", "3", "4", "5", "6", "7", "8", "9"}

DigitVal(c) ==
    CASE c = "0" -> 0 [] c = "1" -> 1 [] c = "2" -> 2 [] c = "3" -> 3
      [] c = "4" -> 4 [] c = "5" -> 5 [] c = "6" -> 6 [] c = "7" -> 7
      [] c = "8" -> 8 [] c = "9" -> 9

DigitChar(d) ==
    CASE d = 0 -> "0" [] d = 1 -> "1" [] d = 2 -> "2" [] d = 3 -> "3"
      [] d = 4 -> "4" [] d = 5 -> "5" [] d = 6 -> "6" [] d = 7 -> "7"
      [] d = 8 -> "8" [] d = 9 -> "9"

\* strconv.ParseInt(text, 10, 0) on unsigned texts
IsInt(text) == Len(text) >= 1 /\ \A n \in 1..Len(text) : text[n] \in Digits

RECURSIVE IntOf(_)
IntOf(text) ==
    IF text = <<>> THEN 0
    ELSE 10 * IntOf(SubSeq(text, 1, Len(text) - 1)) + DigitVal(text[Len(text)])

\* the %d verb of fmt.Sprintf for a non-negative number
RECURSIVE Decimal(_)
Decimal(n) ==
    IF n < 10 THEN <<DigitChar(n)>>
    ELSE Append(Decimal(n \div 10), DigitChar(n % 10))

\* strings.SplitN(str, ".", 2)
DotAt(str) ==
    LET dots == { n \in 1..Len(str) : str[n] = "." }
    IN IF dots = {} THEN 0 ELSE CHOOSE n \in dots : \A m \in dots : n <= m

SplitDot(str) ==
    IF DotAt(str) = 0 THEN <<str>>
    ELSE <<SubSeq(str, 1, DotAt(str) - 1),
           SubSeq(str, DotAt(str) + 1, Len(str))>>

parsePriceNoPad(str) ==
    LET parts == SplitDot(str)
    IN IF ~IsInt(parts[1]) THEN [err |-> "price", price |-> 0]
       ELSE IF Len(parts) > 1
       THEN IF ~IsInt(parts[2]) THEN [err |-> "price", price |-> 0]
            ELSE [err |-> "nil",
                  price |-> IntOf(parts[1]) * 100 + IntOf(parts[2])]
       ELSE [err |-> "nil", price |-> IntOf(parts[1]) * 100]

parsePrice(str) ==
    LET parts == SplitDot(str)
    IN IF ~IsInt(parts[1]) THEN [err |-> "price", price |-> 0]
       ELSE IF Len(parts) > 1
       THEN LET cents == IF Len(parts[2]) = 1 THEN Append(parts[2], "0")
                         ELSE parts[2]
            IN IF ~IsInt(cents) THEN [err |-> "price", price |-> 0]
               ELSE [err |-> "nil",
                     price |-> IntOf(parts[1]) * 100 + IntOf(cents)]
       ELSE [err |-> "nil", price |-> IntOf(parts[1]) * 100]

formatPrice(price) ==
    LET rem == price % 100
    IN IF rem > 0
       THEN Decimal(price \div 100) \o <<".">>
              \o Decimal(IF rem % 10 = 0 THEN rem \div 10 ELSE rem)
       ELSE Decimal(price \div 100)

\* A timestamp text is kept as its fields; time.Parse rejects a text whose
\* hour or minute is out of range.
parseTime(text) ==
    IF text.hour \in 0..23 /\ text.minute \in 0..59
    THEN [err |-> "nil",
          ts |-> text.date * DayLen + text.hour * 60 + text.minute]
    ELSE [err |-> "timestamp", ts |-> 0]

\* candle.Start.Format(time.RFC3339)
formatTime(ts) ==
    [date |-> ts \div DayLen, hour |-> (ts % DayLen) \div 60,
     minute |-> ts % 60]

\* parse(str), on the fields strings.Split(str, ",") yields
parse(parts) ==
    IF Len(parts) < 4 THEN [err |-> "ErrInvalidLineFormat", line |-> NilLine]
    ELSE LET price == parsePrice(parts[2])
             time == parseTime(parts[4])
         IN IF price.err # "nil" THEN [err |-> price.err, line |-> NilLine]
            ELSE IF ~IsInt(parts[3]) THEN [err |-> "count", line |-> NilLine]
            ELSE IF time.err # "nil" THEN [err |-> time.err, line |-> NilLine]
            ELSE [err |-> "nil",
                  line |-> [Ticker |-> parts[1], Timestamp |-> time.ts,
                            Price |-> price.price, Count |-> IntOf(parts[3])]]

\* the record write() prints for a candle
Record(c) ==
    [ticker |-> c.Ticker, start |-> formatTime(c.Start),
     open |-> formatPrice(c.PriceStart), high |-> formatPrice(c.PriceMax),
     low |-> formatPrice(c.PriceMin), close |-> formatPrice(c.PriceEnd)]

\* the records an input file is made of
Texts ==
    << <<"AAPL", <<"1", "6", "2", ".", "8", "8">>, <<"2">>,
         [date |-> 0, hour |-> 7, minute |-> 0]>>,
       <<"AAPL", <<"1", "6", "3">>>>,
       <<"SBER", <<"2", "1", "3", ".", "8">>, <<"1", "0", "0">>,
         [date |-> 0, hour |-> 7, minute |-> 5]>> >>

\* parse() applied to every text the input is drawn from, and its result for
\* one of these texts
ParsedTexts == [n \in 1..Len(Texts) |-> parse(Texts[n])]

ParseOf(text) ==
    ParsedTexts[CHOOSE n \in 1..Len(Texts) : Texts[n] = text]

(* ------------------- the price codec on its own ------------------------ *)
NoPrice == [err |-> "nil", price |-> 0]

CodecIdle == [pc |-> "idle", x |-> 0, text |-> <<>>, back |-> NoPrice]

\* the prices of TestParsePrice and TestFormatPrice, and one with cents 05
TestPrices == {21300, 21380, 21382, 21305}

\* str := formatPrice(x)
FormatStep ==
    /\ codec.pc = "format"
    /\ codec' = [codec EXCEPT !.pc = "parse", !.text = formatPrice(codec.x)]
    /\ UNCHANGED <<proc, inClosed, sent, tested, fed, reader, scanned,
                   writer, sink, orch, expired>>

\* price, err := parsePrice(str)
ParseStep ==
    /\ codec.pc = "parse"
    /\ codec' = [codec EXCEPT !.pc = "done", !.back = parsePrice(codec.text)]
    /\ UNCHANGED <<proc, inClosed, sent, tested, fed, reader, scanned,
                   writer, sink, orch, expired>>

(* ----------------------------- pipeline -------------------------------- *)
\* closes counts the runs of the closing loop
ReaderInit ==
    [pc |-> "scan", line |-> NilLine, idx |-> 1, err |-> "nil", closes |-> 0]

\* failed counts the writes that failed, signals the times write() reached
\* "out <- struct{}{}"
WriterInit == [pc |-> "recv", err |-> "nil", failed |-> 0, signals |-> 0]

OrchInit == [i |-> 0, ret |-> "running", errWaiting |-> FALSE]

InitState ==
    /\ proc = [i \in Tasks |-> ProcInit]
    /\ inClosed = [i \in Tasks |-> FALSE]
    /\ sent = [i \in Tasks |-> <<>>]
    /\ fed = <<>>
    /\ reader = ReaderInit
    /\ scanned = <<>>
    /\ writer = [i \in Tasks |-> WriterInit]
    /\ sink = [i \in Tasks |-> <<>>]
    /\ orch = OrchInit
    /\ expired = FALSE

\* an unrecovered panic in any goroutine ends the program
Crashed == \E i \in Tasks : proc[i].pc = "panic"

Running == orch.ret = "running"

\* timestamp of the last well-formed record scanned (the stream is ordered)
RECURSIVE LastScanned(_)
LastScanned(texts) ==
    IF texts = <<>> THEN 0
    ELSE LET res == ParseOf(texts[Len(texts)])
         IN IF res.err = "nil" THEN res.line.Timestamp
            ELSE LastScanned(SubSeq(texts, 1, Len(texts) - 1))

Ordered(text) ==
    LET res == ParseOf(text)
    IN res.err = "nil" => res.line.Timestamp >= LastScanned(scanned)

\* scanner.Scan() returns a record: parse it
ReadScan(n) ==
    /\ ~Crashed
    /\ reader.pc = "scan"
    /\ Len(scanned) < MaxScan
    /\ Ordered(Texts[n])
    /\ scanned' = Append(scanned, Texts[n])
    /\ LET res == ParsedTexts[n]
       IN reader' = IF res.err # "nil"
                    THEN [reader EXCEPT !.pc = "senderr", !.line = res.line,
                                        !.idx = 1, !.err = res.err]
                    ELSE [reader EXCEPT !.pc = "fwd", !.line = res.line,
                                        !.idx = 1, !.err = "nil"]
    /\ UNCHANGED codec
    /\ UNCHANGED <<proc, inClosed, sent, tested, fed, writer, sink, orch,
                   expired>>

\* scanner.Scan() returns false, with or without a read error
ReadEOF(ioerr) ==
    /\ ~Crashed
    /\ reader.pc = "scan"
    /\ IF ioerr
       THEN /\ reader' = [reader EXCEPT !.pc = "scanerr", !.err = "read"]
            /\ UNCHANGED inClosed
       ELSE /\ reader' = [reader EXCEPT !.pc = "done", !.closes = @ + 1]
            /\ inClosed' = [i \in Tasks |-> TRUE]
    /\ UNCHANGED codec
    /\ UNCHANGED <<proc, sent, tested, fed, scanned, writer, sink, orch,
                   expired>>

ReadForwardFirstOnly ==
    /\ ~Crashed
    /\ reader.pc = "fwd"
    /\ CanReceive(proc[reader.idx])
    /\ proc' = [proc EXCEPT
                  ![reader.idx] = OnReceive(@, reader.line,
                                            Spans[reader.idx])]
    /\ reader' = [reader EXCEPT !.pc = "scan", !.idx = 1]
    /\ UNCHANGED codec
    /\ UNCHANGED <<inClosed, sent, tested, fed, scanned, writer, sink, orch,
                   expired>>

\* out <- line, for the next out of outs
ReadForward ==
    /\ ~Crashed
    /\ reader.pc = "fwd"
    /\ CanReceive(proc[reader.idx])
    /\ proc' = [proc EXCEPT
                  ![reader.idx] = OnReceive(@, reader.line,
                                            Spans[reader.idx])]
    /\ reader' = IF reader.idx = NumTasks
                 THEN [reader EXCEPT !.pc = "scan", !.idx = 1]
                 ELSE [reader EXCEPT !.idx = @ + 1]
    /\ UNCHANGED codec
    /\ UNCHANGED <<inClosed, sent, tested, fed, scanned, writer, sink, orch,
                   expired>>

\* process() finds in closed
ProcessClosed(i) ==
    /\ ~Crashed
    /\ inClosed[i]
    /\ CanReceive(proc[i])
    /\ proc' = [proc EXCEPT ![i] = OnClosed(@)]
    /\ UNCHANGED codec
    /\ UNCHANGED <<inClosed, sent, tested, fed, reader, scanned, writer,
                   sink, orch, expired>>

WriteCandleDropsError(i, fail) ==
    /\ ~Crashed
    /\ writer[i].pc = "recv"
    /\ CanSend(proc[i])
    /\ \E k \in proc[i].pending :
         /\ sent' = [sent EXCEPT ![i] = Append(@, Emitted(proc[i], k))]
         /\ proc' = [proc EXCEPT ![i] = OnTaken(@, k, Spans[i])]
         /\ IF fail
            THEN /\ writer' = [writer EXCEPT ![i].err = "write",
                                              ![i].failed = @ + 1]
                 /\ UNCHANGED sink
            ELSE /\ sink' = [sink EXCEPT
                               ![i] = Append(@, Record(proc[i].candles[k]))]
                 /\ UNCHANGED writer
    /\ UNCHANGED codec
    /\ UNCHANGED <<inClosed, tested, fed, reader, scanned, orch, expired>>

\* write() receives a candle and prints it; Fprintf may fail
WriteCandle(i, fail) ==
    /\ ~Crashed
    /\ writer[i].pc = "recv"
    /\ CanSend(proc[i])
    /\ \E k \in proc[i].pending :
         /\ sent' = [sent EXCEPT ![i] = Append(@, Emitted(proc[i], k))]
         /\ proc' = [proc EXCEPT ![i] = OnTaken(@, k, Spans[i])]
         /\ IF fail
            THEN /\ writer' = [writer EXCEPT ![i].pc = "senderr",
                                              ![i].err = "write",
                                              ![i].failed = @ + 1]
                 /\ UNCHANGED sink
            ELSE /\ sink' = [sink EXCEPT
                               ![i] = Append(@, Record(proc[i].candles[k]))]
                 /\ UNCHANGED writer
    /\ UNCHANGED codec
    /\ UNCHANGED <<inClosed, tested, fed, reader, scanned, orch, expired>>

InputExhaustedEarly(p) == p.pc \in {"final", "done"}

\* "for candle := range in" ends: the channel is closed and nothing is left
InputExhausted(p) == p.pc = "done"

\* write() finds its input closed
WriteClosed(i) ==
    /\ ~Crashed
    /\ writer[i].pc = "recv"
    /\ InputExhausted(proc[i])
    /\ writer' = [writer EXCEPT ![i].pc = "senddone", ![i].signals = @ + 1]
    /\ UNCHANGED codec
    /\ UNCHANGED <<proc, inClosed, sent, tested, fed, reader, scanned, sink,
                   orch, expired>>

\* the goroutines blocked in "errch <- err"
ErrSenders ==
    (IF reader.pc \in {"senderr", "scanerr"} THEN {0} ELSE {})
    \cup { i \in Tasks : writer[i].pc = "senderr" }

\* select: case err := <-errch
OrchErr(s) ==
    /\ ~Crashed
    /\ Running
    /\ s \in ErrSenders
    /\ orch' = [orch EXCEPT
                  !.ret = IF s = 0 THEN reader.err ELSE writer[s].err]
    /\ IF s = 0
       THEN /\ reader' = IF reader.pc = "senderr"
                         THEN [reader EXCEPT !.pc = "fwd"]
                         ELSE [reader EXCEPT !.pc = "done",
                                             !.closes = @ + 1]
            /\ inClosed' = IF reader.pc = "senderr" THEN inClosed
                           ELSE [i \in Tasks |-> TRUE]
            /\ UNCHANGED writer
       ELSE /\ writer' = [writer EXCEPT ![s].pc = "recv"]
            /\ UNCHANGED <<reader, inClosed>>
    /\ UNCHANGED codec
    /\ UNCHANGED <<proc, sent, tested, fed, scanned, sink, expired>>

\* select: case <-ctx.Done()
OrchDeadline ==
    /\ ~Crashed
    /\ Running
    /\ expired
    /\ orch' = [orch EXCEPT !.ret = "DeadlineExceeded",
                            !.errWaiting = ErrSenders # {}]
    /\ UNCHANGED codec
    /\ UNCHANGED <<proc, inClosed, sent, tested, fed, reader, scanned,
                   writer, sink, expired>>

\* select: case <-done; after the last iteration pipeline returns nil
OrchDone(i) ==
    /\ ~Crashed
    /\ Running
    /\ writer[i].pc = "senddone"
    /\ writer' = [writer EXCEPT ![i].pc = "done"]
    /\ orch' = IF orch.i + 1 = NumTasks
               THEN [i |-> orch.i + 1, ret |-> "nil",
                     errWaiting |-> ErrSenders # {}]
               ELSE [orch EXCEPT !.i = @ + 1]
    /\ UNCHANGED codec
    /\ UNCHANGED <<proc, inClosed, sent, tested, fed, reader, scanned, sink,
                   expired>>

\* the deadline of ctx passes
Expire ==
    /\ ~Crashed
    /\ Running
    /\ ~expired
    /\ expired' = TRUE
    /\ UNCHANGED codec
    /\ UNCHANGED <<proc, inClosed, sent, tested, fed, reader, scanned,
                   writer, sink, orch>>

Init == InitState /\ tested = 0 /\ codec = CodecIdle

Next ==
    \/ \E n \in 1..Len(Texts) : ReadScan(n)
    \/ \E ioerr \in BOOLEAN : ReadEOF(ioerr)
    \/ ReadForward
    \/ \E i \in Tasks : ProcessClosed(i)
    \/ \E i \in Tasks, fail \in BOOLEAN : WriteCandle(i, fail)
    \/ \E i \in Tasks : WriteClosed(i)
    \/ \E s \in {0} \cup Tasks : OrchErr(s)
    \/ OrchDeadline
    \/ \E i \in Tasks : OrchDone(i)
    \/ Expire

Spec == Init /\ [][Next]_vars

InitProcess == InitState /\ tested \in Tasks /\ codec = CodecIdle

NextProcess ==
    \/ TestFeed
    \/ TestClose
    \/ ProcessClosed(tested)
    \/ TestCollect

SpecProcess == InitProcess /\ [][NextProcess]_vars

\* The clean path: every record of the input is well formed, the scanner
\* and the writes do not fail and the deadline does not expire, so nothing is
\* ever sent on errch and ctx.Done() is never ready.  Every goroutine that
\* can run is eventually run; a goroutine blocked on a channel stays ready
\* for the rendezvous until it happens, so weak fairness is what the Go
\* scheduler gives.
CleanTexts == { n \in 1..Len(Texts) : ParsedTexts[n].err = "nil" }

ReadStep ==
    \/ \E n \in CleanTexts : ReadScan(n)
    \/ ReadEOF(FALSE)

NextClean ==
    \/ ReadStep
    \/ ReadForward
    \/ \E i \in Tasks : ProcessClosed(i)
    \/ \E i \in Tasks : WriteCandle(i, FALSE)
    \/ \E i \in Tasks : WriteClosed(i)
    \/ \E i \in Tasks : OrchDone(i)

FairClean ==
    /\ WF_vars(ReadStep)
    /\ WF_vars(ReadForward)
    /\ \A i \in Tasks :
         /\ WF_vars(ProcessClosed(i))
         /\ WF_vars(WriteCandle(i, FALSE))
         /\ WF_vars(WriteClosed(i))
         /\ WF_vars(OrchDone(i))

SpecClean == Init /\ [][NextClean]_vars /\ FairClean

InitPrice ==
    /\ InitState
    /\ tested = 0
    /\ \E x \in (0..MaxPrice) \cup TestPrices :
         codec = [CodecIdle EXCEPT !.pc = "format", !.x = x]

NextPrice ==
    \/ FormatStep
    \/ ParseStep

SpecPrice == InitPrice /\ [][NextPrice]_vars

(* ------------------- properties of one process() ----------------------- *)
SeqRange(s) == { s[n] : n \in 1..Len(s) }

PricesOf(ticks) == { t.Price : t \in SeqRange(ticks) }

MaxOf(S) == CHOOSE x \in S : \A y \in S : y <= x

MinOf(S) == CHOOSE x \in S : \A y \in S : x <= y

\* right end of the window that starts at start: clipped to the session end
WindowEnd(start, span) ==
    LET sessionEnd == DayOf(start) + TradesStart + TradesDuration
    IN IF start + span < sessionEnd THEN start + span ELSE sessionEnd

\* the candles of aggregator i: delivered ones and open ones, with their ticks
SentOf(i) == SeqRange(sent[i])

OpenOf(i) ==
    { [c |-> proc[i].candles[k], ticks |-> proc[i].ticks[k]] :
        k \in DOMAIN proc[i].candles }

\* C1: no two candles emitted by one aggregator carry the same
\* (ticker, windowStart), also after a tick whose timestamp equals r.
C1_OneCandlePerWindow ==
    \A i \in Tasks : \A a, b \in 1..Len(sent[i]) :
        a # b => \/ sent[i][a].c.Ticker # sent[i][b].c.Ticker
                 \/ sent[i][a].c.Start # sent[i][b].c.Start

\* C2: every tick aggregated into an emitted candle has a timestamp t with
\* windowStart <= t < min(windowStart + span, sessionEnd).
C2_TicksInsideWindow ==
    \A i \in Tasks : \A e \in SentOf(i) : \A t \in SeqRange(e.ticks) :
        /\ e.c.Start <= t.Timestamp
        /\ t.Timestamp < WindowEnd(e.c.Start, Spans[i])

\* C3: a tick that lies before the left bound of the window the pointer was
\* advanced to is discarded: no open candle holds a tick earlier than l.
C3_RolloverDiscards ==
    \A i \in Tasks : \A e \in OpenOf(i) : \A t \in SeqRange(e.ticks) :
        proc[i].l <= t.Timestamp

\* the step in which aggregator i receives a line
Receives(i) == proc'[i].nrecv = proc[i].nrecv + 1

\* C5: a tick earlier than the left bound l of the current window (for the
\* first tick: of the window it establishes) creates no candle, changes no
\* open candle, triggers no flush and leaves [l, r) unchanged.
C5_DiscardIsNoOp ==
    [][\A i \in Tasks :
          ( /\ Receives(i)
            /\ proc'[i].line # NilLine
            /\ proc'[i].line.Timestamp <
                 (IF proc[i].pc = "first" THEN proc'[i].l ELSE proc[i].l) )
          => /\ proc'[i].candles = proc[i].candles
             /\ proc'[i].ticks = proc[i].ticks
             /\ sent'[i] = sent[i]
             /\ proc'[i].pc = "recv"
             /\ proc[i].pc # "first"
                  => IntervalOf(proc'[i]) = IntervalOf(proc[i])]_vars

\* two pre-session ticks (the first one and a later one) were discarded and
\* a later in-session tick of the same ticker produced its candle
C5_Witness ==
    /\ tested \in Tasks
    /\ Len(fed) = 3
    /\ fed[1].Timestamp = TradesStart - 1
    /\ fed[2].Timestamp = TradesStart - 1
    /\ fed[3].Ticker = fed[1].Ticker
    /\ sent[tested] = <<[c |-> newCandle(TradesStart, fed[3].Ticker,
                                         fed[3].Price),
                         ticks |-> <<fed[3]>>]>>

OHLC(e) ==
    /\ Len(e.ticks) >= 1
    /\ \A t \in SeqRange(e.ticks) : t.Ticker = e.c.Ticker
    /\ e.c.PriceStart = e.ticks[1].Price
    /\ e.c.PriceEnd = e.ticks[Len(e.ticks)].Price
    /\ e.c.PriceMax = MaxOf(PricesOf(e.ticks))
    /\ e.c.PriceMin = MinOf(PricesOf(e.ticks))

\* C6: for every candle, over the ticks of its ticker aggregated into it in
\* arrival order: open is the first price, close the last, high the maximum
\* and low the minimum; ticks of other tickers are not among them.
C6_OpenHighLowClose ==
    \A i \in Tasks : \A e \in SentOf(i) \cup OpenOf(i) : OHLC(e)

\* two candles of different tickers for the same window were emitted, one of
\* them built from several ticks with different open and close
C6_Witness ==
    \E i \in Tasks : \E a, b \in SentOf(i) :
        /\ a.c.Ticker # b.c.Ticker
        /\ a.c.Start = b.c.Start
        /\ Len(a.ticks) >= 2
        /\ a.c.PriceStart # a.c.PriceEnd

CandleOrdered(c) ==
    /\ c.PriceMin <= c.PriceStart /\ c.PriceStart <= c.PriceMax
    /\ c.PriceMin <= c.PriceEnd /\ c.PriceEnd <= c.PriceMax
    /\ c.PriceMin <= c.PriceMax

\* C7: every open candle and every emitted candle has
\* low <= open <= high, low <= close <= high and low <= high.
C7_CandleInvariant ==
    \A i \in Tasks : \A e \in SentOf(i) \cup OpenOf(i) : CandleOrdered(e.c)

\* an emitted candle of three ticks whose low is strictly below its open and
\* whose close is back at the high
C7_Witness ==
    \E i \in Tasks : \E e \in SentOf(i) :
        /\ Len(e.ticks) = 3
        /\ e.c.PriceMin < e.c.PriceStart
        /\ e.c.PriceMin < e.c.PriceEnd
        /\ e.c.PriceEnd = e.c.PriceMax

(* ---------------------- properties of the pipeline --------------------- *)
\* C4: a line that fails to parse is reported and not forwarded: no
\* aggregator ever receives a nil tick.
C4_NoNilTickForwarded ==
    \A i \in Tasks : proc[i].nrecv > 0 => proc[i].line # NilLine

\* C8: pipeline() returns success only if all completion signals were taken
\* before the deadline expired and with no error sender waiting.
C8_SuccessOnlyIfClean ==
    orch.ret = "nil" => ~expired /\ ~orch.errWaiting

\* C9: when the deadline expired while pipeline() was still waiting, what it
\* returns is the deadline error.
C9_DeadlineReturnsTimeout ==
    (~Running /\ expired) => orch.ret = "DeadlineExceeded"

\* C10: a write failure never stops the drain loop: no writer is blocked on
\* the error channel once nobody receives from it any more.
C10_WriterKeepsDraining ==
    \A i \in Tasks : ~(writer[i].pc = "senderr" /\ ~Running)

\* the values pipeline() returns when it took an error from errch
ErrorValues ==
    {"ErrInvalidLineFormat", "price", "count", "timestamp", "read", "write"}

\* C11: an error the reader reports after pipeline() has already returned on
\* an earlier error is dropped: the reader does not come to block on the
\* error channel but goes on with the following lines.
C11_LateErrorDropped ==
    [][(orch.ret \in ErrorValues /\ reader.pc = "scan")
         => reader'.pc \notin {"senderr", "scanerr"}]_vars

\* the records of the candles delivered to writer i
RECURSIVE RecordsOf(_)
RecordsOf(cs) ==
    IF cs = <<>> THEN <<>>
    ELSE Append(RecordsOf(SubSeq(cs, 1, Len(cs) - 1)), Record(cs[Len(cs)].c))

Signalled(i) == writer[i].pc \in {"senddone", "done"}

\* C12 as stated: a writer signals completion only after its input was
\* closed and every candle it received has been written to its sink.
C12_AllWrittenAtCompletion ==
    \A i \in Tasks :
        Signalled(i) => /\ proc[i].pc = "done"
                        /\ sink[i] = RecordsOf(sent[i])

\* C12 amended: a writer signals completion at most once, only after its
\* input was closed with no candle pending, and every candle it received has
\* been written to its sink or its write failure was reported; without a
\* failure the sink holds the records of all candles in order.
C12_DrainedAtCompletion ==
    \A i \in Tasks :
        /\ writer[i].signals <= 1
        /\ writer[i].signals = 1 <=> Signalled(i)
        /\ Signalled(i) =>
             /\ proc[i].pc = "done"
             /\ proc[i].pending = {}
             /\ inClosed[i]
             /\ Len(sink[i]) + writer[i].failed = Len(sent[i])
             /\ writer[i].failed = 0 => sink[i] = RecordsOf(sent[i])

\* a writer signalled completion after two candles, one of which it failed
\* to write
C12_Witness ==
    \E i \in Tasks :
        /\ Signalled(i)
        /\ Len(sent[i]) = 2
        /\ writer[i].failed = 1

WellFormed(texts) == \A n \in 1..Len(texts) : ParseOf(texts[n]).err = "nil"

\* the ticks of the input, in order
ParsedLines(texts) == [n \in 1..Len(texts) |-> ParseOf(texts[n]).line]

IsPrefix(a, b) == Len(a) <= Len(b) /\ a = SubSeq(b, 1, Len(a))

\* C13: for a stream of well-formed lines the ticks every aggregator has
\* received are a prefix of the input ticks, the whole input once its input
\* is closed; the inputs are closed once, after the last tick was delivered,
\* and the reader reports no parse error (and nothing at all unless the
\* scanner fails).
C13_OrderedLosslessFanOut ==
    WellFormed(scanned) =>
        LET lines == ParsedLines(scanned)
        IN /\ reader.pc # "senderr"
           /\ reader.err \in {"nil", "read"}
           /\ orch.ret \in ErrorValues => orch.ret \in {"read", "write"}
           /\ reader.closes <= 1
           /\ \A i \in Tasks :
                /\ IsPrefix(proc[i].got, lines)
                /\ inClosed[i] => /\ proc[i].got = lines
                                  /\ reader.closes = 1

\* the reader is done with two well-formed records of different tickers and
\* every aggregator has received both, in order
C13_Witness ==
    /\ reader.pc = "done"
    /\ reader.err = "nil"
    /\ Len(scanned) = 2
    /\ WellFormed(scanned)
    /\ scanned[1][1] # scanned[2][1]
    /\ \A i \in Tasks : inClosed[i] /\ proc[i].got = ParsedLines(scanned)

\* the candles of a map, in some fixed order
RECURSIVE CandleSeq(_)
CandleSeq(m) ==
    IF DOMAIN m = {} THEN <<>>
    ELSE LET k == CHOOSE k \in DOMAIN m : TRUE
         IN <<m[k]>> \o CandleSeq(MapDel(m, k))

\* process() run alone on the lines, start to end: the candles it emits
RECURSIVE RunProcess(_, _, _, _)
RunProcess(p, lines, out, span) ==
    IF p.pc \in {"done", "panic"} THEN out
    ELSE IF p.pc = "final" THEN out \o CandleSeq(p.candles)
    ELSE IF p.pc = "flush"
    THEN RunProcess(AfterFlush([p EXCEPT !.candles = EmptyMap,
                                         !.ticks = EmptyMap,
                                         !.pending = {}], span),
                    lines, out \o CandleSeq(p.candles), span)
    ELSE IF lines = <<>> THEN RunProcess(OnClosed(p), lines, out, span)
    ELSE RunProcess(OnReceive(p, Head(lines), span), Tail(lines), out, span)

CountIn(s, x) == Cardinality({ n \in 1..Len(s) : s[n] = x })

SameBag(a, b) ==
    /\ Len(a) = Len(b)
    /\ \A x \in SeqRange(a) \cup SeqRange(b) : CountIn(a, x) = CountIn(b, x)

DeliveredCandles(i) == [n \in 1..Len(sent[i]) |-> sent[i][n].c]

\* C14: in every interleaving that runs an aggregator to completion, the
\* multiset of candles it delivered is the one determined by the ordered
\* input ticks and its span alone.
C14_ResultDependsOnInputOnly ==
    ((\E i \in Tasks : proc[i].pc = "done") /\ WellFormed(scanned))
    => LET lines == ParsedLines(scanned)
       IN \A i \in Tasks :
            proc[i].pc = "done"
            => SameBag(DeliveredCandles(i),
                       RunProcess(ProcInit, lines, <<>>, Spans[i]))

\* an aggregator ran to completion and delivered the candles of two tickers
\* of one window, SBER first
C14_Witness ==
    \E i \in Tasks :
        /\ proc[i].pc = "done"
        /\ Len(sent[i]) = 2
        /\ sent[i][1].c.Ticker = "SBER"
        /\ sent[i][2].c.Ticker = "AAPL"
        /\ scanned[1][1] = "AAPL"

(* -------------------- properties of the price codec -------------------- *)
\* number of characters after the first "." of a text (0 without a ".")
FractionLen(text) == IF DotAt(text) = 0 THEN 0 ELSE Len(text) - DotAt(text)

\* C15: parsePrice(formatPrice(x)) = x when the cents x mod 100 are 0 or at
\* least 10; formatPrice drops zero cents, prints one digit for cents that
\* are a multiple of 10 and two digits otherwise, except that for cents 1..9
\* the leading zero is lost and the round trip does not return x.
C15_PriceRoundTrip ==
    LET x == codec.x
        cents == codec.x % 100
    IN /\ codec.pc \in {"parse", "done"} =>
            /\ FractionLen(codec.text) =
                 (IF cents = 0 THEN 0
                  ELSE IF cents % 10 = 0 \/ cents < 10 THEN 1 ELSE 2)
            /\ x = 21382 => codec.text = <<"2", "1", "3", ".", "8", "2">>
            /\ x = 21380 => codec.text = <<"2", "1", "3", ".", "8">>
            /\ x = 21300 => codec.text = <<"2", "1", "3">>
       /\ codec.pc = "done" =>
            /\ codec.back.err = "nil"
            /\ (cents = 0 \/ cents >= 10) => codec.back.price = x
            /\ cents \in 1..9 => codec.back.price # x

\* 21305 was formatted as "213.5" and parsed back as 21350
C15_Witness ==
    /\ codec.pc = "done"
    /\ codec.x = 21305
    /\ codec.text = <<"2", "1", "3", ".", "5">>
    /\ codec.back.price = 21350

(* ------------------------- the session grid ---------------------------- *)
\* start lies on the grid of its own day's session: sessionStart + k * span
\* with k >= 0, before the end of the session
OnSessionGrid(start, span) ==
    LET sessionStart == DayOf(start) + TradesStart
    IN /\ sessionStart <= start
       /\ start < sessionStart + TradesDuration
       /\ (start - sessionStart) % span = 0

\* C16: every candle of an aggregator with span S, emitted or still open, has
\* a windowStart on the session grid of its own calendar day, after skipped
\* idle windows, a clipped final window and session rollovers.
C16_WindowStartOnGrid ==
    \A i \in Tasks : \A e \in SentOf(i) \cup OpenOf(i) :
        OnSessionGrid(e.c.Start, Spans[i])

\* span 240 min: a candle of the first window, then, three idle windows
\* later, one of the clipped last window 23:00-00:00, then one of the first
\* window of the next day's session
C16_Witness ==
    /\ tested \in Tasks
    /\ Spans[tested] = 240
    /\ Len(sent[tested]) = 3
    /\ sent[tested][1].c.Start = TradesStart
    /\ sent[tested][2].c.Start = TradesStart + 4 * 240
    /\ WindowEnd(sent[tested][2].c.Start, 240) = TradesStart + TradesDuration
    /\ sent[tested][3].c.Start = DayLen + TradesStart

(* --------------------------- window order ------------------------------ *)
\* the candles of aggregator i were delivered in window order, none of them
\* belongs to a window after the current one, and every open candle belongs
\* to the current window
InWindowOrder(i) ==
    /\ \A a, b \in 1..Len(sent[i]) :
          a < b => sent[i][a].c.Start <= sent[i][b].c.Start
    /\ \A e \in SentOf(i) : e.c.Start <= proc[i].l
    /\ \A e \in OpenOf(i) : e.c.Start = proc[i].l

\* a step that moves the window pointer of aggregator i: every candle open
\* before it has been delivered, and the candles open after it were created
\* for the new window
AdvancesAfterFlush(i) ==
    (proc[i].pc # "first" /\ proc'[i].l # proc[i].l)
    => /\ proc'[i].l > proc[i].l
       /\ \A e \in OpenOf(i) : \E n \in 1..Len(sent'[i]) : sent'[i][n] = e
       /\ \A k \in DOMAIN proc'[i].candles :
             /\ proc'[i].candles[k].Start = proc'[i].l
             /\ proc'[i].ticks[k] = <<proc'[i].line>>

\* C17: within one aggregator the windowStart values of the emitted candles
\* are non-decreasing, and all open candles are delivered and the map is
\* empty before the window pointer advances and a tick of a later window is
\* aggregated.
C17_EmittedInWindowOrder ==
    /\ [](\A i \in Tasks : InWindowOrder(i))
    /\ [][\A i \in Tasks : AdvancesAfterFlush(i)]_vars

\* two candles of the first window, of different tickers, were delivered
\* before the candle of a later window
C17_Witness ==
    /\ tested \in Tasks
    /\ Len(sent[tested]) = 3
    /\ sent[tested][1].c.Start = sent[tested][2].c.Start
    /\ sent[tested][1].c.Ticker # sent[tested][2].c.Ticker
    /\ sent[tested][2].c.Start < sent[tested][3].c.Start

(* ---------------------------- backpressure ----------------------------- *)
\* the reader is at most one line ahead of every aggregator, and the
\* aggregators receive each line in the order of outs
ReaderAheadByOne ==
    /\ \A i \in Tasks :
          /\ proc[i].nrecv <= Len(scanned)
          /\ Len(scanned) - proc[i].nrecv <= 1
    /\ \A i, j \in Tasks :
          i < j => /\ proc[i].nrecv >= proc[j].nrecv
                   /\ proc[i].nrecv - proc[j].nrecv <= 1

\* C18: the reader has at most one parsed tick not yet delivered to all
\* aggregators, so the numbers of ticks received by two aggregators differ
\* by at most 1 and an earlier-registered aggregator is never behind a later
\* one; an aggregator does not receive its next tick while a candle of a
\* closed window has not been taken by its writer.
C18_Backpressure ==
    /\ []ReaderAheadByOne
    /\ [][\A i \in Tasks : Receives(i) => proc[i].pending = {}]_vars

\* the reader holds the third tick for the 5 min aggregator, which still
\* holds the candle of the window closed by the second tick
C18_Witness ==
    /\ Len(scanned) = 3
    /\ reader.pc = "fwd"
    /\ reader.idx = 1
    /\ reader.line # NilLine
    /\ proc[1].nrecv = 2
    /\ proc[1].pc = "flush"
    /\ proc[1].pending # {}
    /\ proc[NumTasks].nrecv = 2

(* ------------------------ errors and completion ------------------------ *)
\* some line failed to parse, the scanner failed or a write failed
SomeError ==
    \/ ~WellFormed(scanned)
    \/ reader.err = "read"
    \/ \E i \in Tasks : writer[i].failed > 0

\* C20: in a run where a line fails to parse, the scanner reports a read
\* error or a candle write fails, pipeline() never returns success: while a
\* worker is blocked reporting on errch fewer than N completion signals have
\* been received, and the worker is released only by the step in which
\* pipeline() takes its error and returns it.
C20_ErrorNeverMasked ==
    /\ [](SomeError => orch.ret # "nil")
    /\ [](ErrSenders # {} => orch.i < NumTasks)
    /\ [][\A s \in ErrSenders :
            s \notin ErrSenders'
            => /\ orch.ret = "running"
               /\ orch'.ret = (IF s = 0 THEN reader.err ELSE writer[s].err)
               /\ orch'.ret \in ErrorValues]_vars

\* all writers but one have signalled and were heard; the last one failed
\* to write its candle and pipeline() returned its error
C20_Witness ==
    /\ orch.i = NumTasks - 1
    /\ orch.ret = "write"
    /\ \E i \in Tasks :
         /\ writer[i].failed = 1
         /\ writer[i].signals = 0
         /\ \A j \in Tasks \ {i} : writer[j].pc = "done"

(* ----------------------- termination, clean path ---------------------- *)
\* the reader closed all inputs, every aggregator delivered all its candles
\* and closed its output, every writer wrote them and signalled, and
\* pipeline() returned success
AllDone ==
    /\ reader.pc = "done"
    /\ orch.ret = "nil"
    /\ orch.i = NumTasks
    /\ \A i \in Tasks :
         /\ inClosed[i]
         /\ proc[i].got = ParsedLines(scanned)
         /\ proc[i].pc = "done"
         /\ proc[i].pending = {}
         /\ writer[i].pc = "done"
         /\ sink[i] = RecordsOf(sent[i])

\* C19: for every finite input of well-formed lines, the empty one included,
\* with no write failure and no deadline expiry, under fair scheduling the
\* reader closes all aggregator inputs, every aggregator flushes its open
\* candles and closes its output, every writer signals completion, and
\* pipeline() eventually returns success with no worker left blocked.
C19_CleanPathTerminates == <>[]AllDone

\* success after three records; the 5 min aggregator delivered three candles
C19_Witness ==
    /\ AllDone
    /\ Len(scanned) = 3
    /\ Len(sink[1]) = 3
    /\ \E i \in Tasks : Len(sink[i]) = 2

====
